---- MODULE Spec2Model ----
(***************************************************************************)
(* Model of the quoting system: the pricing engine                         *)
(* (src/astro/public/pricing_engine.js) and the localStorage wrapper       *)
(* (src/Archive/data_storage.js).                                          *)
(*                                                                         *)
(* Encoding of JavaScript values                                           *)
(*   - an optional number or list is a sequence of length <= 1:            *)
(*     <<>> is null/undefined, <<v>> is the value v;                       *)
(*   - an optional string is the string itself, Null for null/undefined;   *)
(*     the empty string "" is kept distinct (it is falsy like null);       *)
(*   - width and height are given in quarter inches, so that fractional    *)
(*     sizes exist and Math.ceil has something to round;                   *)
(*   - rates and prices are integers.                                      *)
(***************************************************************************)
EXTENDS Integers, Sequences, FiniteSets, TLC

VARIABLES
    pc,              \* engine scenario: "input" before the call, "done" after
    call,            \* engine scenario: the function called and its arguments
    ret,             \* engine scenario: what the call returned or threw
    localStorage,    \* store: the browser's localStorage, key -> parsed value
    clock,           \* Date.now()
    steps,           \* number of operations performed so far
    heap,            \* caller memory: sequence of objects, a reference is an index
    lineItemsRef,    \* caller memory: reference of the caller's lineItems array
    created          \* caller memory: the QuoteVersion createQuoteVersion returned

engineVars == <<pc, call, ret>>
storeVars == <<localStorage, clock, steps>>
memVars == <<heap, lineItemsRef, created>>
vars == <<pc, call, ret, localStorage, clock, steps, heap, lineItemsRef, created>>

----------------------------------------------------------------------------
(* JavaScript value helpers *)

Null == "<null>"
None == <<>>
Some(v) == <<v>>
IsSet(o) == o # <<>>
Val(o) == o[1]

\* truthiness of an optional string: null, undefined and "" are falsy
Truthy(s) == s # Null /\ s # ""

\* a || b on optional strings
OrElse(a, b) == IF Truthy(a) THEN a ELSE b

\* Array.prototype.includes
Includes(list, x) == \E i \in 1..Len(list) : list[i] = x

Max(a, b) == IF a >= b THEN a ELSE b

\* the id list used as it is, duplicates included
Dedup_Keep(list, seen) == list

RECURSIVE Dedup(_, _)
\* [...new Set(list)]: first occurrences, in order
Dedup(list, seen) ==
    IF list = <<>> THEN <<>>
    ELSE IF Head(list) \in seen THEN Dedup(Tail(list), seen)
    ELSE <<Head(list)>> \o Dedup(Tail(list), seen \cup {Head(list)})

RECURSIVE Filter(_, _)
\* list.filter(x => x \in keep)
Filter(list, keep) ==
    IF list = <<>> THEN <<>>
    ELSE IF Head(list) \in keep THEN <<Head(list)>> \o Filter(Tail(list), keep)
    ELSE Filter(Tail(list), keep)

RECURSIVE SumOf(_, _)
\* list.reduce((sum, x) => sum + x[field], 0) for field = price
SumOf(list, i) ==
    IF i > Len(list) THEN 0 ELSE list[i].price + SumOf(list, i + 1)

----------------------------------------------------------------------------
(* PricingEngine *)

\* clause 1 of isAddonAllowed: product type restriction
TypeClause(addon, product) ==
    IF IsSet(addon.allowedProductTypes) /\ Len(Val(addon.allowedProductTypes)) > 0
    THEN LET productType == OrElse(product.productType,
                                   OrElse(product.type, product.productTypeCode))
         IN  Truthy(productType) /\ Includes(Val(addon.allowedProductTypes), productType)
    ELSE TRUE

\* clause 2 of isAddonAllowed: product line restriction
LineClause(addon, product) ==
    IF IsSet(addon.allowedProductLines) /\ Len(Val(addon.allowedProductLines)) > 0
    THEN LET productLine == OrElse(product.productLineId, product.productLine)
         IN  Truthy(productLine) /\ Includes(Val(addon.allowedProductLines), productLine)
    ELSE TRUE

\* isAddonAllowed without its minSize clause
isAddonAllowed_NoMinSize(addon, product, ui) ==
    IF ~TypeClause(addon, product) THEN FALSE
    ELSE IF ~LineClause(addon, product) THEN FALSE
    ELSE IF IsSet(addon.maxSize) /\ ui > Val(addon.maxSize) THEN FALSE
    ELSE TRUE

isAddonAllowed(addon, product, ui) ==
    IF ~TypeClause(addon, product) THEN FALSE
    ELSE IF ~LineClause(addon, product) THEN FALSE
    ELSE IF IsSet(addon.maxSize) /\ ui > Val(addon.maxSize) THEN FALSE
    ELSE IF IsSet(addon.minSize) /\ ui < Val(addon.minSize) THEN FALSE
    ELSE TRUE

\* calculateUI rounding down instead of up
calculateUI_Floor(width, height) == (width + height) \div 4

\* Math.ceil(width + height), width and height in quarter inches
calculateUI(width, height) == -((-(width + height)) \div 4)

\* product.minimumUI || 0
MinimumUIOrZero(product) ==
    IF IsSet(product.minimumUI) THEN Val(product.minimumUI) ELSE 0

effectiveUIOf(product, ui) == Max(ui, MinimumUIOrZero(product))

NoError == "none"
InvalidPricingModel == "Invalid pricing model"
ExclusiveConflict == "Exclusive addon conflict in group"
NegativeUplift == "Sales uplift cannot be negative"
BelowPar == "Final price cannot be below par price"

\* what a throw inside calculateLineItem looks like to the caller
LineItemError(kind, detail) ==
    [error |-> kind, detail |-> detail, ui |-> 0, basePrice |-> 0,
     addonTotal |-> 0, lineItemParTotal |-> 0, appliedAddons |-> <<>>]

\* calculateLineItem without the auto-applied mandatory addons
mandatoryAddonIdsOf_None(product, allAddons) == <<>>

\* (product.allowedAddons || []).filter(id => allAddons[id]?.mandatory)
mandatoryAddonIdsOf(product, allAddons) ==
    LET allowed == IF IsSet(product.allowedAddons) THEN Val(product.allowedAddons) ELSE <<>>
    IN  Filter(allowed, {id \in DOMAIN allAddons : allAddons[id].mandatory})

allAddonIdsOf(product, selectedAddonIds, allAddons) ==
    Dedup(mandatoryAddonIdsOf(product, allAddons) \o selectedAddonIds, {})

\* price of one applied addon (an unknown pricing model leaves it 0)
addonPriceOf(addon, effectiveUI) ==
    IF addon.pricingModel = "UI" THEN effectiveUI * addon.uiRate
    ELSE IF addon.pricingModel = "FLAT" THEN addon.flatPrice
    ELSE 0

\* eligibility decided on the clamped ui
addonEligible_Clamped(addon, product, ui, effectiveUI) ==
    isAddonAllowed(addon, product, effectiveUI)

\* the eligibility test of the loop: isAddonAllowed on the un-clamped ui
addonEligible(addon, product, ui, effectiveUI) ==
    isAddonAllowed(addon, product, ui)

\* the loop without the conflict test
exclusiveConflict_Never(addon, usedExclusiveGroups) == FALSE

\* addon.exclusiveGroup && usedExclusiveGroups.has(addon.exclusiveGroup)
exclusiveConflict(addon, usedExclusiveGroups) ==
    Truthy(addon.exclusiveGroup) /\ addon.exclusiveGroup \in usedExclusiveGroups

\* the loop forgetting to record the group it accepted
usedAfter_Forgotten(addon, usedExclusiveGroups) == usedExclusiveGroups

\* usedExclusiveGroups after an addon with a group has been accepted
usedAfter(addon, usedExclusiveGroups) ==
    IF Truthy(addon.exclusiveGroup)
    THEN usedExclusiveGroups \cup {addon.exclusiveGroup}
    ELSE usedExclusiveGroups

RECURSIVE addonLoop(_, _, _, _, _, _)
\* the for-loop over allAddonIds; acc carries appliedAddons,
\* usedExclusiveGroups, addonTotal and the thrown error, if any
addonLoop(ids, product, ui, effectiveUI, allAddons, acc) ==
    IF ids = <<>> \/ acc.error # NoError THEN acc
    ELSE
      LET addonId == Head(ids)
          rest == Tail(ids)
      IN
      IF addonId \notin DOMAIN allAddons
      THEN addonLoop(rest, product, ui, effectiveUI, allAddons, acc)
      ELSE
        LET addon == allAddons[addonId] IN
        IF ~addonEligible(addon, product, ui, effectiveUI)
        THEN addonLoop(rest, product, ui, effectiveUI, allAddons, acc)
        ELSE IF exclusiveConflict(addon, acc.used)
        THEN [acc EXCEPT !.error = ExclusiveConflict, !.detail = addon.exclusiveGroup]
        ELSE
          LET addonPrice == addonPriceOf(addon, effectiveUI)
              used2 == usedAfter(addon, acc.used)
              entry == [id |-> addonId, name |-> addon.name, price |-> addonPrice,
                        hidden |-> addon.hiddenFromCustomer]
          IN addonLoop(rest, product, ui, effectiveUI, allAddons,
                       [acc EXCEPT !.used = used2,
                                   !.addonTotal = @ + addonPrice,
                                   !.appliedAddons = Append(@, entry)])

calculateLineItem(product, width, height, selectedAddonIds, allAddons) ==
    LET ui == calculateUI(width, height)
        effectiveUI == effectiveUIOf(product, ui)
    IN
    IF product.pricingModel \notin {"UI", "FLAT"}
    THEN LineItemError(InvalidPricingModel, product.pricingModel)
    ELSE
      LET basePrice == IF product.pricingModel = "UI"
                       THEN effectiveUI * product.uiRate
                       ELSE product.flatPrice
          acc == addonLoop(allAddonIdsOf(product, selectedAddonIds, allAddons),
                           product, ui, effectiveUI, allAddons,
                           [error |-> NoError, detail |-> Null, used |-> {},
                            addonTotal |-> 0, appliedAddons |-> <<>>])
      IN
      IF acc.error # NoError THEN LineItemError(acc.error, acc.detail)
      ELSE [error |-> NoError, detail |-> Null, ui |-> effectiveUI,
            basePrice |-> basePrice, addonTotal |-> acc.addonTotal,
            lineItemParTotal |-> basePrice + acc.addonTotal,
            appliedAddons |-> acc.appliedAddons]

RECURSIVE SumPar(_, _)
\* lineItems.reduce((sum, item) => sum + item.lineItemParTotal, 0)
SumPar(lineItems, i) ==
    IF i > Len(lineItems) THEN 0
    ELSE lineItems[i].lineItemParTotal + SumPar(lineItems, i + 1)

RECURSIVE SumJob(_, _)
\* for (const addon of jobBasedAddons) jobAddonTotal += addon.price || 0
SumJob(jobBasedAddons, i) ==
    IF i > Len(jobBasedAddons) THEN 0
    ELSE (IF IsSet(jobBasedAddons[i].price) THEN Val(jobBasedAddons[i].price) ELSE 0)
         + SumJob(jobBasedAddons, i + 1)

\* what a throw inside calculateQuote looks like to the caller
QuoteError(kind) ==
    [error |-> kind, totalParPrice |-> 0, jobAddonTotal |-> 0,
     jobBasedAddons |-> <<>>, salesUplift |-> 0, finalPrice |-> 0]

\* the uplift guard off by one
upliftRejected_OffByOne(salesUplift) == salesUplift < -1

\* the first guard of calculateQuote
upliftRejected(salesUplift) == salesUplift < 0

\* calculateQuote without the price floor
belowPar_Never(finalPrice, totalParPrice) == FALSE

\* the second guard of calculateQuote
belowPar(finalPrice, totalParPrice) == finalPrice < totalParPrice

calculateQuote(lineItems, jobBasedAddons, salesUplift) ==
    IF upliftRejected(salesUplift) THEN QuoteError(NegativeUplift)
    ELSE
      LET totalParPrice == SumPar(lineItems, 1)
          jobAddonTotal == SumJob(jobBasedAddons, 1)
          finalPrice == totalParPrice + jobAddonTotal + salesUplift
      IN
      IF belowPar(finalPrice, totalParPrice) THEN QuoteError(BelowPar)
      ELSE [error |-> NoError, totalParPrice |-> totalParPrice,
            jobAddonTotal |-> jobAddonTotal, jobBasedAddons |-> jobBasedAddons,
            salesUplift |-> salesUplift, finalPrice |-> finalPrice]

\* truthiness of an optional number: null, undefined and 0 are falsy
TruthyNum(o) == IsSet(o) /\ Val(o) # 0

\* the errors array after one `if (limit && violated) errors.push(message)`
PushIf(errors, limit, violated, message) ==
    IF TruthyNum(limit) /\ violated THEN Append(errors, <<message, Val(limit)>>)
    ELSE errors

\* the four tests of validateSize, in order
sizeErrors(limits, width, height) ==
    LET e1 == PushIf(<<>>, limits.minWidth,
                     TruthyNum(limits.minWidth) /\ width < Val(limits.minWidth),
                     "Width must be at least")
        e2 == PushIf(e1, limits.maxWidth,
                     TruthyNum(limits.maxWidth) /\ width > Val(limits.maxWidth),
                     "Width cannot exceed")
        e3 == PushIf(e2, limits.minHeight,
                     TruthyNum(limits.minHeight) /\ height < Val(limits.minHeight),
                     "Height must be at least")
    IN  PushIf(e3, limits.maxHeight,
               TruthyNum(limits.maxHeight) /\ height > Val(limits.maxHeight),
               "Height cannot exceed")

\* validateSize; width, height and the limits are in the same unit.
\* hasErrors says whether the result carries an errors array at all
validateSize(product, width, height) ==
    IF ~IsSet(product.sizeLimits)
    THEN [valid |-> TRUE, hasErrors |-> FALSE, errors |-> <<>>]
    ELSE LET errors == sizeErrors(Val(product.sizeLimits), width, height)
         IN  [valid |-> Len(errors) = 0, hasErrors |-> TRUE, errors |-> errors]

validateUI(product, ui) ==
    LET e1 == PushIf(<<>>, product.minimumUI,
                     TruthyNum(product.minimumUI) /\ ui < Val(product.minimumUI),
                     "UI must be at least")
        errors == PushIf(e1, product.maximumUI,
                         TruthyNum(product.maximumUI) /\ ui > Val(product.maximumUI),
                         "UI cannot exceed")
    IN  [valid |-> Len(errors) = 0, hasErrors |-> TRUE, errors |-> errors]

----------------------------------------------------------------------------
(* Object memory.  A heap is a sequence of objects and a reference is an  *)
(* index into it.  A lineItems array is an "array" object whose elements   *)
(* are references to "lineItem" objects, each of which refers to the       *)
(* "array" of its appliedAddons entries ("entry" objects).                 *)

ArrayObj(elems) == [kind |-> "array", elems |-> elems]

\* the value of an appliedAddons array, read through the references
EntriesAt(h, ref) == [i \in 1..Len(h[ref].elems) |-> h[h[ref].elems[i]]]

\* the value of one line item, read through the references
ItemAt(h, ref) == [h[ref] EXCEPT !.appliedAddons = EntriesAt(h, @)]

\* JSON.stringify(lineItems): the value of the whole array
LineItemsAt(h, ref) == [i \in 1..Len(h[ref].elems) |-> ItemAt(h, h[ref].elems[i])]

\* JSON.parse of an appliedAddons array: fresh entry objects, then a fresh array
ParseEntries(h, entries) ==
    LET n == Len(entries)
        h1 == h \o entries
        h2 == Append(h1, ArrayObj([i \in 1..n |-> Len(h) + i]))
    IN  [heap |-> h2, ref |-> Len(h2)]

\* JSON.parse of one line item: its entries, then the fresh item object
ParseItem(h, item) ==
    LET e == ParseEntries(h, item.appliedAddons)
        h2 == Append(e.heap, [item EXCEPT !.appliedAddons = e.ref])
    IN  [heap |-> h2, ref |-> Len(h2)]

RECURSIVE ParseItems(_, _, _)
\* JSON.parse of the items of a lineItems array, left to right
ParseItems(h, items, refs) ==
    IF items = <<>> THEN [heap |-> h, refs |-> refs]
    ELSE LET p == ParseItem(h, Head(items))
         IN  ParseItems(p.heap, Tail(items), Append(refs, p.ref))

\* JSON.parse of a lineItems array: every object of the result is fresh
ParseLineItems(h, items) ==
    LET p == ParseItems(h, items, <<>>)
        h2 == Append(p.heap, ArrayObj(p.refs))
    IN  [heap |-> h2, ref |-> Len(h2)]

\* [...lineItems]: a fresh array that shares the line item objects
cloneLineItems_Shallow(h, ref) ==
    [heap |-> Append(h, ArrayObj(h[ref].elems)), ref |-> Len(h) + 1]

\* JSON.parse(JSON.stringify(lineItems)): the deep clone
cloneLineItems(h, ref) == ParseLineItems(h, LineItemsAt(h, ref))

NoVersion == [error |-> "no version"]

\* `${quoteId}_v${Date.now()}`
quoteVersionId(quoteId, now) == <<quoteId, "_v", now>>

\* the last millisecond of the runs looked at
MaxClock == 2

\* the clock is read twice, by Date.now() for the id and by new Date() for
\* the timestamp: the second reading is the first or any later one, any
\* number of milliseconds having passed in between
ClockReads(now) == { t \in 0..MaxClock : t >= now } \cup {now}

\* createQuoteVersion on the caller's memory h; now is Date.now() and stamp
\* the time new Date() reads
createQuoteVersion(h, quoteId, lineItems, salesUplift, metadata, now, stamp) ==
    LET quoteCalc == calculateQuote(LineItemsAt(h, lineItems), <<>>, salesUplift) IN
    IF quoteCalc.error # NoError
    THEN [error |-> quoteCalc.error, heap |-> h, version |-> NoVersion]
    ELSE LET clone == cloneLineItems(h, lineItems)
         IN  [error |-> NoError, heap |-> clone.heap,
              version |-> [id |-> quoteVersionId(quoteId, now),
                           quoteId |-> quoteId,
                           timestamp |-> stamp,
                           lineItems |-> clone.ref,
                           totalParPrice |-> quoteCalc.totalParPrice,
                           salesUplift |-> quoteCalc.salesUplift,
                           finalPrice |-> quoteCalc.finalPrice,
                           locked |-> TRUE,
                           metadata |-> metadata]]

\* JSON.stringify of a QuoteVersion held in memory h
VersionJSON(h, version) == [version EXCEPT !.lineItems = LineItemsAt(h, @)]

----------------------------------------------------------------------------
(* Inputs of the engine scenarios *)

Product(pricingModel, minimumUI, allowedAddons) ==
    [id |-> "p1", name |-> "Single Hung", pricingModel |-> pricingModel,
     uiRate |-> 3, flatPrice |-> 40, minimumUI |-> minimumUI,
     productType |-> "SH", type |-> Null, productTypeCode |-> "SH",
     productLineId |-> "L1", productLine |-> Null,
     allowedAddons |-> allowedAddons]

Addon(id, pricingModel, exclusiveGroup, mandatory, types, minSize, maxSize) ==
    [id |-> id, name |-> id, pricingModel |-> pricingModel,
     uiRate |-> 2, flatPrice |-> 5, exclusiveGroup |-> exclusiveGroup,
     mandatory |-> mandatory, hiddenFromCustomer |-> mandatory,
     allowedProductTypes |-> types, allowedProductLines |-> None,
     minSize |-> minSize, maxSize |-> maxSize]

PricingModels == {"UI", "FLAT", "PERCENT"}

\* how an addon of a line-item scenario is restricted: by type, minSize, maxSize
Restrictions ==
    { <<None, None, None>>, <<None, None, Some(5)>>, <<None, Some(5), None>>,
      <<Some(<<"DH">>), None, None>> }

LineProducts ==
    { Product(m, u, a) : m \in PricingModels, u \in {None, Some(7)},
                         a \in {None, Some(<<"a2", "a1">>)} }

FirstAddons ==
    { Addon("a1", m, g, d, r[1], r[2], r[3]) :
        m \in PricingModels, g \in {Null, "", "glass"}, d \in BOOLEAN,
        r \in Restrictions }

SecondAddons ==
    { Addon("a2", "FLAT", g, d, None, s, None) :
        g \in {Null, "glass"}, d \in BOOLEAN, s \in {None, Some(5)} }

\* width and height in quarter inches: 3.75 -> 4, 6 -> 6, 8.25 -> 9
Dimensions == { <<7, 8>>, <<12, 12>>, <<17, 16>> }

Selections ==
    { <<>>, <<"a1">>, <<"a2">>, <<"a1", "a2">>, <<"a2", "a1">>,
      <<"a1", "a1">>, <<"zz", "a2">>, <<"a1", "zz">> }

LineItemCalls ==
    { [op |-> "calculateLineItem", product |-> p, width |-> d[1], height |-> d[2],
       selectedAddonIds |-> sel, allAddons |-> ("a1" :> x) @@ ("a2" :> y)] :
        p \in LineProducts, d \in Dimensions, sel \in Selections,
        x \in FirstAddons, y \in SecondAddons }

\* inputs of isAddonAllowed: every restriction against every kind of product
RestrictedAddons ==
    { [Addon("a1", "FLAT", Null, FALSE, t, lo, hi) EXCEPT !.allowedProductLines = l] :
        t \in {None, Some(<<>>), Some(<<"SH">>), Some(<<"DH", "DOOR">>)},
        l \in {None, Some(<<>>), Some(<<"L1">>)},
        lo \in {None, Some(0), Some(5)},
        hi \in {None, Some(0), Some(5)} }

TypedProducts ==
    { [Product("UI", None, None) EXCEPT !.productType = a, !.type = b,
           !.productTypeCode = c, !.productLineId = l, !.productLine = m] :
        a \in {Null, "", "SH", "DOOR"}, b \in {Null, "DH"}, c \in {Null, "SH"},
        l \in {Null, "L1", "L2"}, m \in {Null, "L1"} }

AllowedCalls ==
    { [op |-> "isAddonAllowed", addon |-> a, product |-> p, ui |-> u] :
        a \in RestrictedAddons, p \in TypedProducts, u \in {0, 4, 5, 6} }

MaxLineItems == 2
MaxJobAddons == 2

SeqsUpTo(S, n) == UNION { [1..k -> S] : k \in 0..n }

SampleCatalog ==
    ("a1" :> Addon("a1", "UI", "glass", TRUE, None, None, None)) @@
    ("a2" :> Addon("a2", "FLAT", Null, FALSE, None, None, None))

\* line items as calculateLineItem produces them
SampleLineItems ==
    { calculateLineItem(p, 12, 12, sel, SampleCatalog) :
        p \in {Product("UI", None, Some(<<"a2", "a1">>)), Product("FLAT", None, None)},
        sel \in {<<>>, <<"a2">>} }

JobAddons == { [id |-> "install", price |-> pr] : pr \in {None, Some(-3), Some(0), Some(4)} }

Uplifts == {-1, 0, 2, 5}
QuoteIds == {"q1", "q2"}

QuoteCalls ==
    { [op |-> "calculateQuote", lineItems |-> li, jobBasedAddons |-> j, salesUplift |-> u] :
        li \in SeqsUpTo(SampleLineItems, MaxLineItems),
        j \in SeqsUpTo(JobAddons, MaxJobAddons), u \in Uplifts }

VersionCalls ==
    { [op |-> "createQuoteVersion", quoteId |-> q, lineItems |-> li, salesUplift |-> u,
       now |-> 0, stamp |-> t] :
        q \in QuoteIds, li \in SeqsUpTo(SampleLineItems, MaxLineItems), u \in Uplifts,
        t \in ClockReads(0) }

----------------------------------------------------------------------------
(* The engine scenarios: Init draws a call, one action per function runs it *)

NoRet == "<not called>"
NoCall == [op |-> "<none>"]
EmptyMap == <<>>

StoreIdle ==
    /\ localStorage = EmptyMap
    /\ clock = 0
    /\ steps = 0

MemIdle ==
    /\ heap = <<>>
    /\ lineItemsRef = 0
    /\ created = NoVersion

EngineIdle ==
    /\ pc = "idle"
    /\ call = NoCall
    /\ ret = NoRet

EngineInit(calls) ==
    /\ pc = "input"
    /\ call \in calls
    /\ ret = NoRet
    /\ StoreIdle
    /\ MemIdle

Return(value) ==
    /\ pc' = "done"
    /\ ret' = value
    /\ UNCHANGED <<call, storeVars, memVars>>

IsAddonAllowedCall ==
    /\ pc = "input" /\ call.op = "isAddonAllowed"
    /\ Return(isAddonAllowed(call.addon, call.product, call.ui))

CalculateLineItemCall ==
    /\ pc = "input" /\ call.op = "calculateLineItem"
    /\ Return(calculateLineItem(call.product, call.width, call.height,
                                call.selectedAddonIds, call.allAddons))

CalculateQuoteCall ==
    /\ pc = "input" /\ call.op = "calculateQuote"
    /\ Return(calculateQuote(call.lineItems, call.jobBasedAddons, call.salesUplift))

\* the caller holds call.lineItems in memory; the result is read back as a value
CreateQuoteVersionCall ==
    /\ pc = "input" /\ call.op = "createQuoteVersion"
    /\ LET mem == ParseLineItems(<<>>, call.lineItems)
           r == createQuoteVersion(mem.heap, call.quoteId, mem.ref,
                                   call.salesUplift, "meta", call.now, call.stamp)
       IN  Return([error |-> r.error,
                   version |-> IF r.error = NoError
                               THEN VersionJSON(r.heap, r.version) ELSE NoVersion])

\* isAddonAllowed on every restriction and product
SpecAllowed == EngineInit(AllowedCalls) /\ [][IsAddonAllowedCall]_vars

\* calculateLineItem on every product, size, selection and catalog
SpecLineItem == EngineInit(LineItemCalls) /\ [][CalculateLineItemCall]_vars

NextQuote ==
    \/ CalculateQuoteCall
    \/ CreateQuoteVersionCall

\* calculateQuote and createQuoteVersion on every quote
SpecQuote == EngineInit(QuoteCalls \cup VersionCalls) /\ [][NextQuote]_vars

\* inputs of validateSize and validateUI
SizeLimits ==
    { [minWidth |-> a, maxWidth |-> b, minHeight |-> c, maxHeight |-> d] :
        a \in {None, Some(0), Some(8)}, b \in {None, Some(0), Some(16)},
        c \in {None, Some(8)}, d \in {None, Some(0), Some(16)} }

SizedProducts ==
    { [id |-> "p1", sizeLimits |-> l, minimumUI |-> None, maximumUI |-> None] :
        l \in {None} \cup { Some(x) : x \in SizeLimits } }

BoundedProducts ==
    { [id |-> "p1", sizeLimits |-> None, minimumUI |-> lo, maximumUI |-> hi] :
        lo \in {None, Some(0), Some(6)}, hi \in {None, Some(0), Some(8)} }

ValidateCalls ==
    { [op |-> "validateSize", product |-> p, width |-> w, height |-> h] :
        p \in SizedProducts, w \in {4, 12, 20}, h \in {4, 12, 20} }
    \cup
    { [op |-> "validateUI", product |-> p, ui |-> u] :
        p \in BoundedProducts, u \in {0, 4, 7, 9} }

ValidateSizeCall ==
    /\ pc = "input" /\ call.op = "validateSize"
    /\ Return(validateSize(call.product, call.width, call.height))

ValidateUICall ==
    /\ pc = "input" /\ call.op = "validateUI"
    /\ Return(validateUI(call.product, call.ui))

NextValidate ==
    \/ ValidateSizeCall
    \/ ValidateUICall

\* validateSize and validateUI on every combination of limits
SpecValidate == EngineInit(ValidateCalls) /\ [][NextValidate]_vars

----------------------------------------------------------------------------
(* Properties of the engine *)

Returned(op) == pc = "done" /\ call.op = op

LineItemReturned == Returned("calculateLineItem") /\ ret.error = NoError

\* ids of the entries of an appliedAddons list
AppliedIds(applied) == { applied[i].id : i \in 1..Len(applied) }

\* the exclusiveGroup an appliedAddons entry belongs to
GroupOfEntry(entry) == call.allAddons[entry.id].exclusiveGroup

\* an addon of the catalog that isAddonAllowed accepts at the raw size
EligibleAt(id) ==
    /\ id \in DOMAIN call.allAddons
    /\ isAddonAllowed(call.allAddons[id], call.product,
                      calculateUI(call.width, call.height))

\* the ids of product.allowedAddons that the catalog flags mandatory
MandatoryOfCall ==
    IF IsSet(call.product.allowedAddons)
    THEN { id \in DOMAIN call.allAddons :
             Includes(Val(call.product.allowedAddons), id) /\ call.allAddons[id].mandatory }
    ELSE {}

\* the price the claim expects for an applied addon at the clamped size
ExpectedAddonPrice(addon, size) ==
    CASE addon.pricingModel = "UI" -> size * addon.uiRate
      [] addon.pricingModel = "FLAT" -> addon.flatPrice
      [] OTHER -> 0

\* C2: every result calculateQuote returns has finalPrice >= totalParPrice,
\* with negative and missing job-addon prices too, and a computed finalPrice
\* below totalParPrice makes the call fail instead of returning.
C2_FinalPriceNeverBelowPar ==
    Returned("calculateQuote") =>
        LET par == SumPar(call.lineItems, 1)
            final == par + SumJob(call.jobBasedAddons, 1) + call.salesUplift
        IN  /\ ret.error = NoError =>
                 /\ ret.finalPrice >= ret.totalParPrice
                 /\ ret.totalParPrice = par
                 /\ ret.finalPrice = final
            /\ final < par => ret.error # NoError

\* C2 witness: a quote with a negative job-addon price and a missing one
\* that still returns, and whose uplift keeps it at or above par
C2_Witness ==
    /\ Returned("calculateQuote")
    /\ ret.error = NoError
    /\ call.lineItems # <<>>
    /\ \E i \in 1..Len(call.jobBasedAddons) : call.jobBasedAddons[i].price = Some(-3)
    /\ \E i \in 1..Len(call.jobBasedAddons) : call.jobBasedAddons[i].price = None

\* C3: no two entries of a returned appliedAddons belong to addons with the
\* same non-empty exclusiveGroup.
C3_OnePerExclusiveGroup ==
    LineItemReturned =>
        \A i, j \in 1..Len(ret.appliedAddons) :
            (i # j /\ Truthy(GroupOfEntry(ret.appliedAddons[i])))
                => GroupOfEntry(ret.appliedAddons[i]) # GroupOfEntry(ret.appliedAddons[j])

\* C3 witness: a mandatory and a selected addon declare the same group, one of
\* them is not eligible, and the line item is returned with the other one
C3_Witness ==
    /\ LineItemReturned
    /\ call.allAddons["a1"].exclusiveGroup = "glass"
    /\ call.allAddons["a2"].exclusiveGroup = "glass"
    /\ "a2" \in MandatoryOfCall
    /\ Includes(call.selectedAddonIds, "a1")
    /\ Len(ret.appliedAddons) = 1

\* two distinct selected ids whose addons declare the same exclusiveGroup g
SelectedShareGroup(a, b, g) ==
    /\ a # b
    /\ Includes(call.selectedAddonIds, a) /\ Includes(call.selectedAddonIds, b)
    /\ a \in DOMAIN call.allAddons /\ b \in DOMAIN call.allAddons
    /\ Truthy(g)
    /\ call.allAddons[a].exclusiveGroup = g /\ call.allAddons[b].exclusiveGroup = g

\* C4 as claimed: two distinct selected addons declaring the same group always
\* make calculateLineItem fail with the conflict error naming that group.
C4_ConflictWheneverSelected ==
    Returned("calculateLineItem") =>
        \A a, b \in DOMAIN call.allAddons : \A g \in {"glass"} :
            SelectedShareGroup(a, b, g) =>
                ret.error = ExclusiveConflict /\ ret.detail = g

\* C4 amended: when the product's pricingModel is UI or FLAT and two distinct
\* selected addons that isAddonAllowed accepts at the un-clamped ui declare
\* the same exclusiveGroup, calculateLineItem fails with the conflict error,
\* which names a group two eligible addons share, and returns no LineItem.
C4_ConflictWhenBothEligible ==
    Returned("calculateLineItem") =>
        \A a, b \in DOMAIN call.allAddons : \A g \in {"glass"} :
            (/\ SelectedShareGroup(a, b, g)
             /\ call.product.pricingModel \in {"UI", "FLAT"}
             /\ EligibleAt(a) /\ EligibleAt(b))
            => /\ ret.error = ExclusiveConflict
               /\ ret.appliedAddons = <<>>
               /\ \E x, y \in DOMAIN call.allAddons :
                     /\ x # y /\ EligibleAt(x) /\ EligibleAt(y)
                     /\ call.allAddons[x].exclusiveGroup = ret.detail
                     /\ call.allAddons[y].exclusiveGroup = ret.detail

\* C4 witness: both selected addons are eligible, share "glass", and the call
\* has thrown the conflict
C4_Witness ==
    /\ Returned("calculateLineItem")
    /\ SelectedShareGroup("a1", "a2", "glass")
    /\ EligibleAt("a1") /\ EligibleAt("a2")
    /\ ret.error = ExclusiveConflict
    /\ ret.detail = "glass"

\* C5 as claimed: every mandatory addon of product.allowedAddons is in the
\* appliedAddons of a successful call, with its price in addonTotal.
C5_MandatoryAlwaysApplied ==
    LineItemReturned =>
        \A id \in MandatoryOfCall :
            \E i \in 1..Len(ret.appliedAddons) : ret.appliedAddons[i].id = id

\* C5 amended: every mandatory addon of product.allowedAddons that
\* isAddonAllowed accepts for the product at the un-clamped ui is in the
\* appliedAddons of a successful call, selected or not, and its price is part
\* of addonTotal.
C5_EligibleMandatoryApplied ==
    LineItemReturned =>
        /\ \A id \in MandatoryOfCall :
              EligibleAt(id) =>
                 \E i \in 1..Len(ret.appliedAddons) :
                    /\ ret.appliedAddons[i].id = id
                    /\ ret.appliedAddons[i].price =
                          ExpectedAddonPrice(call.allAddons[id], ret.ui)
        /\ ret.addonTotal = SumOf(ret.appliedAddons, 1)

\* C5 witness: a mandatory addon the caller did not select has been applied
\* at a price above zero
C5_Witness ==
    /\ LineItemReturned
    /\ "a1" \in MandatoryOfCall
    /\ ~Includes(call.selectedAddonIds, "a1")
    /\ \E i \in 1..Len(ret.appliedAddons) :
          ret.appliedAddons[i].id = "a1" /\ ret.appliedAddons[i].price > 0
    /\ ret.addonTotal > 0

\* the least integer not below (width + height) / 4
CeilOfCall ==
    CHOOSE n \in 0..(call.width + call.height) :
        4 * n >= call.width + call.height /\ 4 * (n - 1) < call.width + call.height

\* C6: ui = max(ceil(width + height), minimumUI or 0); basePrice = ui * uiRate
\* for a UI product and flatPrice for a FLAT one; with no addons addonTotal = 0
\* and lineItemParTotal = basePrice.
C6_BasePrice ==
    LineItemReturned =>
        LET floorUI == IF IsSet(call.product.minimumUI)
                       THEN Val(call.product.minimumUI) ELSE 0
        IN  /\ ret.ui = Max(CeilOfCall, floorUI)
            /\ call.product.pricingModel = "UI"
                   => ret.basePrice = ret.ui * call.product.uiRate
            /\ call.product.pricingModel = "FLAT"
                   => ret.basePrice = call.product.flatPrice
            /\ (call.selectedAddonIds = <<>> /\ MandatoryOfCall = {})
                   => /\ ret.appliedAddons = <<>>
                      /\ ret.addonTotal = 0
                      /\ ret.lineItemParTotal = ret.basePrice

\* C6 witness: a UI product of fractional size, no minimum, no addons
C6_Witness ==
    /\ LineItemReturned
    /\ call.product.pricingModel = "UI"
    /\ call.product.minimumUI = None
    /\ (call.width + call.height) % 4 # 0
    /\ call.selectedAddonIds = <<>> /\ MandatoryOfCall = {}
    /\ ret.lineItemParTotal = CeilOfCall * call.product.uiRate

\* the addons the loop of the call looks at
CandidatesOfCall ==
    { id \in DOMAIN call.allAddons :
        id \in MandatoryOfCall \/ Includes(call.selectedAddonIds, id) }

\* C7: with minimumUI above the raw ui, eligibility uses the raw ui and
\* pricing the clamped one: an addon with maxSize between the two is applied
\* and, if UI-priced, costs minimumUI * uiRate; one with minSize between the
\* two is skipped.
C7_EligibilityRawPricingClamped ==
    LineItemReturned =>
        LET raw == calculateUI(call.width, call.height)
            minUI == MinimumUIOrZero(call.product)
        IN  minUI > raw =>
              \A id \in CandidatesOfCall :
                LET addon == call.allAddons[id] IN
                /\ (/\ IsSet(addon.maxSize)
                    /\ raw <= Val(addon.maxSize) /\ Val(addon.maxSize) < minUI
                    /\ ~IsSet(addon.minSize)
                    /\ ~IsSet(addon.allowedProductTypes)
                    /\ ~IsSet(addon.allowedProductLines))
                   => \E i \in 1..Len(ret.appliedAddons) :
                         /\ ret.appliedAddons[i].id = id
                         /\ ret.appliedAddons[i].price =
                               ExpectedAddonPrice(addon, minUI)
                /\ (/\ IsSet(addon.minSize)
                    /\ raw < Val(addon.minSize) /\ Val(addon.minSize) <= minUI)
                   => id \notin AppliedIds(ret.appliedAddons)

\* C7 witness: raw ui 4 under minimumUI 7; the UI-priced addon with maxSize 5
\* is applied at 7 * uiRate and the addon with minSize 5 is skipped
C7_Witness ==
    /\ LineItemReturned
    /\ calculateUI(call.width, call.height) = 4
    /\ call.product.minimumUI = Some(7)
    /\ call.allAddons["a1"].maxSize = Some(5)
    /\ call.allAddons["a1"].pricingModel = "UI"
    /\ call.allAddons["a2"].minSize = Some(5)
    /\ call.selectedAddonIds = <<"a1", "a2">>
    /\ Len(ret.appliedAddons) = 1
    /\ ret.appliedAddons[1].id = "a1"
    /\ ret.appliedAddons[1].price = 7 * call.allAddons["a1"].uiRate

\* the product's type as the claim names it: productType, else type, else
\* productTypeCode
TypeOfProduct(product) ==
    CASE Truthy(product.productType) -> product.productType
      [] ~Truthy(product.productType) /\ Truthy(product.type) -> product.type
      [] OTHER -> product.productTypeCode

\* the four clauses of C8, each true when its restriction is absent
ClausesOfCall ==
    LET a == call.addon
        p == call.product
    IN  << \/ a.allowedProductTypes = None
           \/ a.allowedProductTypes = Some(<<>>)
           \/ \E i \in 1..Len(Val(a.allowedProductTypes)) :
                 Val(a.allowedProductTypes)[i] = TypeOfProduct(p),
           \/ a.allowedProductLines = None
           \/ a.allowedProductLines = Some(<<>>)
           \/ \E i \in 1..Len(Val(a.allowedProductLines)) :
                 Val(a.allowedProductLines)[i]
                    = (IF Truthy(p.productLineId) THEN p.productLineId ELSE p.productLine),
           a.maxSize = None \/ call.ui <= Val(a.maxSize),
           a.minSize = None \/ call.ui >= Val(a.minSize) >>

\* C8: isAddonAllowed returns true exactly when all four clauses hold; an
\* absent restriction never excludes and one failing clause always does.
C8_AllowedIffAllClauses ==
    Returned("isAddonAllowed") =>
        (ret = TRUE) <=> (\A k \in 1..4 : ClausesOfCall[k])

\* C8 witness: only the minSize clause fails and the addon is refused
C8_Witness ==
    /\ Returned("isAddonAllowed")
    /\ ClausesOfCall[1] /\ ClausesOfCall[2] /\ ClausesOfCall[3]
    /\ ~ClausesOfCall[4]
    /\ call.addon.allowedProductTypes # None
    /\ call.product.productType = Null /\ call.product.type = "DH"
    /\ ret = FALSE

\* C9: calculateQuote and createQuoteVersion fail with the negative-uplift
\* error for every salesUplift < 0, whatever the line items and job addons,
\* and return neither totals nor a version.
C9_NegativeUpliftRejected ==
    /\ (Returned("calculateQuote") /\ call.salesUplift < 0)
          => ret = QuoteError(NegativeUplift)
    /\ (Returned("createQuoteVersion") /\ call.salesUplift < 0)
          => ret.error = NegativeUplift /\ ret.version = NoVersion

\* C9 witness: createQuoteVersion has refused a quote with line items and
\* uplift -1
C9_Witness ==
    /\ Returned("createQuoteVersion")
    /\ call.salesUplift = -1
    /\ Len(call.lineItems) = MaxLineItems
    /\ ret.error = NegativeUplift

\* C17 as claimed: calculateLineItem fails with the invalid-configuration
\* error whenever the product, or an addon it applies, has a pricingModel
\* other than UI or FLAT, and never returns a LineItem priced from one.
C17_InvalidModelRejected ==
    Returned("calculateLineItem") =>
        /\ call.product.pricingModel \notin {"UI", "FLAT"}
              => ret.error = InvalidPricingModel
        /\ ret.error = NoError =>
              \A i \in 1..Len(ret.appliedAddons) :
                 call.allAddons[ret.appliedAddons[i].id].pricingModel \in {"UI", "FLAT"}

\* C18: in a returned LineItem every addon id occurs at most once in
\* appliedAddons, addonTotal is the sum of the prices of all its entries,
\* hidden ones included, and lineItemParTotal = basePrice + addonTotal.
C18_AppliedOnceAndSummed ==
    LineItemReturned =>
        /\ \A i, j \in 1..Len(ret.appliedAddons) :
              ret.appliedAddons[i].id = ret.appliedAddons[j].id => i = j
        /\ ret.addonTotal = SumOf(ret.appliedAddons, 1)
        /\ ret.lineItemParTotal = ret.basePrice + ret.addonTotal

\* C18 witness: a hidden mandatory addon that the caller also selected, twice,
\* is applied once and its price is the addon total
C18_Witness ==
    /\ LineItemReturned
    /\ "a1" \in MandatoryOfCall
    /\ call.selectedAddonIds = <<"a1", "a1">>
    /\ Len(ret.appliedAddons) = 1
    /\ ret.appliedAddons[1].id = "a1"
    /\ ret.appliedAddons[1].hidden
    /\ ret.appliedAddons[1].price > 0
    /\ ret.addonTotal = ret.appliedAddons[1].price

\* the limits of the call that are present, each with the size it bounds
LimitsOfCall ==
    IF call.op = "validateSize"
    THEN IF call.product.sizeLimits = None THEN {}
         ELSE LET l == Val(call.product.sizeLimits) IN
              { x \in { <<"minWidth", l.minWidth, call.width, "below">>,
                        <<"maxWidth", l.maxWidth, call.width, "above">>,
                        <<"minHeight", l.minHeight, call.height, "below">>,
                        <<"maxHeight", l.maxHeight, call.height, "above">> } :
                   IsSet(x[2]) }
    ELSE { x \in { <<"minimumUI", call.product.minimumUI, call.ui, "below">>,
                   <<"maximumUI", call.product.maximumUI, call.ui, "above">> } :
              IsSet(x[2]) }

\* a limit of LimitsOfCall that the size violates
Violated(x) ==
    IF x[4] = "below" THEN x[3] < Val(x[2]) ELSE x[3] > Val(x[2])

ValidateReturned == Returned("validateSize") \/ Returned("validateUI")

\* C15: validateSize and validateUI report one error for each limit that is
\* present and violated, and valid is true exactly when there is none.
C15_OneErrorPerPresentLimit ==
    ValidateReturned =>
        LET violated == { x \in LimitsOfCall : Violated(x) }
        IN  /\ Len(ret.errors) = Cardinality(violated)
            /\ ret.valid <=> violated = {}

----------------------------------------------------------------------------
(* DataStorage *)

MANUFACTURERS == "pricing_manufacturers"
PRODUCT_LINES == "pricing_product_lines"
PRODUCTS == "pricing_products"
ADDONS == "pricing_addons"
QUOTES == "pricing_quotes"
QUOTE_VERSIONS == "pricing_quote_versions"
PRICING_VERSIONS == "pricing_versions"
CURRENT_VERSION == "pricing_current_version"
GLOBAL_SETTINGS == "global_settings"

\* get(key, defaultValue) on the storage ls
get(ls, key, defaultValue) ==
    IF key \in DOMAIN ls THEN ls[key] ELSE defaultValue

\* set(key, value): the storage after the write.  When setItem throws (the
\* storage is full) the error is caught, the storage is left as it was and
\* the caller, which ignores the false returned, goes on.
set(ls, key, value, setItemThrows) ==
    IF setItemThrows THEN ls ELSE (key :> value) @@ ls

DefaultSettings == [minimumUI |-> 65, alertsEnabled |-> TRUE, rules |-> <<>>]

\* the storage initializeSampleData leaves; failed are the keys whose write
\* throws
initializeSampleData(ls, failed) ==
    IF MANUFACTURERS \notin DOMAIN ls
    THEN set(set(set(set(set(set(set(ls,
             MANUFACTURERS, EmptyMap, MANUFACTURERS \in failed),
             PRODUCT_LINES, EmptyMap, PRODUCT_LINES \in failed),
             PRODUCTS, EmptyMap, PRODUCTS \in failed),
             ADDONS, EmptyMap, ADDONS \in failed),
             QUOTES, EmptyMap, QUOTES \in failed),
             QUOTE_VERSIONS, EmptyMap, QUOTE_VERSIONS \in failed),
             GLOBAL_SETTINGS, DefaultSettings, GLOBAL_SETTINGS \in failed)
    ELSE ls

getGlobalSettings(ls) == get(ls, GLOBAL_SETTINGS, DefaultSettings)

\* updateGlobalSettings(settings): { ...current, ...settings } is written
updateGlobalSettings(ls, settings, setItemThrows) ==
    set(ls, GLOBAL_SETTINGS, settings @@ getGlobalSettings(ls), setItemThrows)

getManufacturers(ls) == get(ls, MANUFACTURERS, EmptyMap)
getProductLines(ls) == get(ls, PRODUCT_LINES, EmptyMap)
getProducts(ls) == get(ls, PRODUCTS, EmptyMap)
getAddons(ls) == get(ls, ADDONS, EmptyMap)

saveQuote(ls, quote, setItemThrows) ==
    LET all == get(ls, QUOTES, EmptyMap)
    IN  set(ls, QUOTES, (quote.id :> quote) @@ all, setItemThrows)

\* saveQuoteVersion overwriting the history instead of appending to it
saveQuoteVersion_Overwrite(ls, version, setItemThrows) ==
    LET versions == get(ls, QUOTE_VERSIONS, EmptyMap)
    IN  set(ls, QUOTE_VERSIONS, (version.quoteId :> <<version>>) @@ versions, setItemThrows)

saveQuoteVersion(ls, version, setItemThrows) ==
    LET versions == get(ls, QUOTE_VERSIONS, EmptyMap)
        list == IF version.quoteId \in DOMAIN versions
                THEN versions[version.quoteId] ELSE <<>>
    IN  set(ls, QUOTE_VERSIONS, (version.quoteId :> Append(list, version)) @@ versions,
            setItemThrows)

getQuoteVersions(ls, quoteId) ==
    LET versions == get(ls, QUOTE_VERSIONS, EmptyMap)
    IN  IF quoteId \in DOMAIN versions THEN versions[quoteId] ELSE <<>>

\* `pricing_v${Date.now()}`
pricingVersionId(now) == <<"pricing_v", now>>

\* publishPricingVersion(notes): the storage after it and the version it
\* returns.  now is Date.now() and stamp the time new Date() reads; the two
\* writes, of the list and of the pointer, may each fail.
publishPricingVersion(ls, notes, now, stamp, listThrows, pointerThrows) ==
    LET version == [id |-> pricingVersionId(now),
                    timestamp |-> stamp,
                    notes |-> notes,
                    manufacturers |-> getManufacturers(ls),
                    productLines |-> getProductLines(ls),
                    products |-> getProducts(ls),
                    addons |-> getAddons(ls)]
        versions == Append(get(ls, PRICING_VERSIONS, <<>>), version)
    IN  [storage |-> set(set(ls, PRICING_VERSIONS, versions, listThrows),
                         CURRENT_VERSION, version.id, pointerThrows),
         version |-> version]

getPricingVersions(ls) == get(ls, PRICING_VERSIONS, <<>>)

\* loadPricingVersion(versionId): versions.find(v => v.id === versionId),
\* the first version with the id; None is undefined
loadPricingVersion(ls, versionId) ==
    LET versions == getPricingVersions(ls)
        found == { i \in 1..Len(versions) : versions[i].id = versionId }
    IN  IF found = {} THEN None
        ELSE Some(versions[CHOOSE i \in found : \A j \in found : i <= j])

\* Object.keys of a product-line mapping.  The mapping is the sequence of its
\* product lines in insertion order, which is the order of its keys.
ObjectKeys(productLines) == [i \in 1..Len(productLines) |-> productLines[i].id]

\* the migration of one product that skips the legacy lineId
migrateProduct_NoLegacy(product, productLines) ==
    LET keys == ObjectKeys(productLines)
    IN  IF ~Truthy(product.productLineId) /\ keys # <<>> /\ Truthy(keys[1])
        THEN [product EXCEPT !.productLineId = keys[1]]
        ELSE product

\* the body of the forEach of importAll: the product after the migration
migrateProduct(product, productLines) ==
    LET renamed == IF ~Truthy(product.productLineId) /\ Truthy(product.lineId)
                   THEN [product EXCEPT !.productLineId = product.lineId]
                   ELSE product
        keys == ObjectKeys(productLines)
    IN  IF ~Truthy(renamed.productLineId) /\ keys # <<>> /\ Truthy(keys[1])
        THEN [renamed EXCEPT !.productLineId = keys[1]]
        ELSE renamed

\* if (data.key) this.set(storeKey, data.key); a bundle is a function from
\* the keys it has to collections, which are all truthy; failed are the keys
\* of the bundle whose write throws
importKey(ls, data, key, storeKey, failed) ==
    IF key \in DOMAIN data THEN set(ls, storeKey, data[key], key \in failed) ELSE ls

\* importAll(data): the storage after it
importAll(ls, data, failed) ==
    LET s1 == importKey(ls, data, "manufacturers", MANUFACTURERS, failed)
        s2 == importKey(s1, data, "productLines", PRODUCT_LINES, failed)
        productLines == IF "productLines" \in DOMAIN data THEN data.productLines
                        ELSE getProductLines(s2)
        s3 == IF "products" \in DOMAIN data
              THEN set(s2, PRODUCTS,
                       [id \in DOMAIN data.products |->
                           migrateProduct(data.products[id], productLines)],
                       "products" \in failed)
              ELSE s2
        s4 == importKey(s3, data, "addons", ADDONS, failed)
        s5 == importKey(s4, data, "quotes", QUOTES, failed)
        s6 == importKey(s5, data, "quoteVersions", QUOTE_VERSIONS, failed)
        s7 == importKey(s6, data, "pricingVersions", PRICING_VERSIONS, failed)
    IN  importKey(s7, data, "globalSettings", GLOBAL_SETTINGS, failed)

----------------------------------------------------------------------------
(* The store: catalog edits, quotes, quote versions and pricing versions *)

MaxSteps == 4

StoreProduct(rate) == [Product("UI", None, Some(<<"a1">>)) EXCEPT !.uiRate = rate]

\* the values an administrator writes under the four catalog keys
CatalogValues ==
    (MANUFACTURERS :> { ("m1" :> [id |-> "m1", name |-> n]) : n \in {"Andersen", "Pella"} }) @@
    (PRODUCT_LINES :> { <<[id |-> "L1", manufacturerId |-> "m1", name |-> n]>> :
                           n \in {"400 Series", "250 Series"} }) @@
    (PRODUCTS :> { ("p1" :> StoreProduct(r)) : r \in {3, 4} }) @@
    (ADDONS :> { ("a1" :> Addon("a1", m, "glass", TRUE, None, None, None)) :
                    m \in {"UI", "FLAT"} })

\* the line items the sales screen computes from the catalog in the store
CurrentLineItems(ls) ==
    IF "p1" \in DOMAIN getProducts(ls)
    THEN <<calculateLineItem(getProducts(ls)["p1"], 12, 12, <<>>, getAddons(ls))>>
    ELSE <<>>

\* the QuoteVersion createQuoteVersion returns for the current line items,
\* as JSON.stringify writes it
NewQuoteVersion(ls, quoteId, salesUplift, now, stamp) ==
    LET mem == ParseLineItems(<<>>, CurrentLineItems(ls))
        r == createQuoteVersion(mem.heap, quoteId, mem.ref, salesUplift, "meta", now, stamp)
    IN  VersionJSON(r.heap, r.version)

\* the first visit: the storage is empty and takes the seven writes
StoreInit ==
    /\ localStorage = initializeSampleData(EmptyMap, {})
    /\ clock = 0
    /\ steps = 0

Init ==
    /\ StoreInit
    /\ EngineIdle
    /\ MemIdle

\* one operation on the store; call is the bundle of the last operation
\* when that was importAll
Step ==
    /\ steps < MaxSteps
    /\ steps' = steps + 1
    /\ call' = NoCall
    /\ UNCHANGED <<pc, ret, memVars>>

\* DataStorage.set on one of the four catalog keys
SetCatalog ==
    /\ Step
    /\ \E key \in DOMAIN CatalogValues : \E value \in CatalogValues[key] :
       \E setItemThrows \in BOOLEAN :
          localStorage' = set(localStorage, key, value, setItemThrows)
    /\ UNCHANGED clock

\* the settings the administrator changes
SettingsUpdates == { [minimumUI |-> 70], [alertsEnabled |-> FALSE] }

UpdateGlobalSettings ==
    /\ Step
    /\ \E settings \in SettingsUpdates : \E setItemThrows \in BOOLEAN :
          localStorage' = updateGlobalSettings(localStorage, settings, setItemThrows)
    /\ UNCHANGED clock

SaveQuote ==
    /\ Step
    /\ \E q \in QuoteIds : \E setItemThrows \in BOOLEAN :
          localStorage' = saveQuote(localStorage, [id |-> q, salesUplift |-> 2],
                                    setItemThrows)
    /\ UNCHANGED clock

\* the sales screen locks the quote: createQuoteVersion, then saveQuoteVersion;
\* the clock has moved on to the time of the second reading
SaveQuoteVersion ==
    /\ Step
    /\ \E q \in QuoteIds : \E u \in {0, 2} : \E stamp \in ClockReads(clock) :
       \E setItemThrows \in BOOLEAN :
          /\ localStorage' = saveQuoteVersion(localStorage,
                                 NewQuoteVersion(localStorage, q, u, clock, stamp),
                                 setItemThrows)
          /\ clock' = stamp

PublishPricingVersion ==
    /\ Step
    /\ \E stamp \in ClockReads(clock) : \E listThrows, pointerThrows \in BOOLEAN :
          /\ localStorage' = publishPricingVersion(localStorage, "notes", clock, stamp,
                                                    listThrows, pointerThrows).storage
          /\ clock' = stamp

\* a millisecond passes
Tick ==
    /\ Step
    /\ clock < MaxClock
    /\ clock' = clock + 1
    /\ UNCHANGED localStorage

Next ==
    \/ Tick
    \/ SetCatalog
    \/ UpdateGlobalSettings
    \/ SaveQuote
    \/ SaveQuoteVersion
    \/ PublishPricingVersion

Spec == Init /\ [][Next]_vars

\* C1: once saveQuoteVersion has stored a version, every later catalog write,
\* saveQuote, saveQuoteVersion and publishPricingVersion leaves it in
\* getQuoteVersions(quoteId) at the same position with the same lineItems,
\* totalParPrice, salesUplift and finalPrice.
C1_StoredVersionsFrozen ==
    [][\A q \in QuoteIds :
          LET old == getQuoteVersions(localStorage, q)
              new == getQuoteVersions(localStorage', q)
          IN  /\ Len(new) >= Len(old)
              /\ \A i \in 1..Len(old) : new[i] = old[i]]_vars

\* C1 witness: the first version of q1 was priced from a catalog that has
\* changed since, and another version was stored after it
C1_Witness ==
    LET stored == getQuoteVersions(localStorage, "q1") IN
    /\ Len(stored) = 2
    /\ stored[1].lineItems # <<>>
    /\ CurrentLineItems(localStorage) # <<>>
    /\ stored[1].lineItems # CurrentLineItems(localStorage)
    /\ stored[1].totalParPrice # SumPar(CurrentLineItems(localStorage), 1)
    /\ stored[1].finalPrice = stored[1].totalParPrice + stored[1].salesUplift

\* the four collections of a pricing version
CollectionsOf(version) ==
    <<version.manufacturers, version.productLines, version.products, version.addons>>

CatalogOf(ls) ==
    <<getManufacturers(ls), getProductLines(ls), getProducts(ls), getAddons(ls)>>

\* C14: a publish appends a version holding the catalog of that moment and
\* makes it current; every stored version stays where it is, and
\* loadPricingVersion of the id of a stored version returns its collections
C14_PublishedVersionKept ==
    [][LET old == getPricingVersions(localStorage)
           new == getPricingVersions(localStorage')
       IN  /\ Len(new) >= Len(old)
           /\ \A i \in 1..Len(old) : new[i] = old[i]
           /\ Len(new) > Len(old) =>
                 /\ Len(new) = Len(old) + 1
                 /\ CollectionsOf(new[Len(new)]) = CatalogOf(localStorage)
                 /\ CURRENT_VERSION \in DOMAIN localStorage'
                 /\ localStorage'[CURRENT_VERSION] = new[Len(new)].id
           /\ \A i \in 1..Len(new) :
                 LET loaded == loadPricingVersion(localStorage', new[i].id)
                 IN  IsSet(loaded) /\ CollectionsOf(Val(loaded)) = CollectionsOf(new[i])]_vars

\* C20: the stored pricing versions have pairwise distinct ids, so that
\* loadPricingVersion of the id of a stored version returns that version
C20_DistinctVersionIds ==
    LET versions == getPricingVersions(localStorage)
    IN  /\ \A i, j \in 1..Len(versions) : versions[i].id = versions[j].id => i = j
        /\ \A i \in 1..Len(versions) :
              loadPricingVersion(localStorage, versions[i].id) = Some(versions[i])

----------------------------------------------------------------------------
(* Backups: importAll between publishes *)

\* a product of a bundle: productLineId and the legacy lineId are Null when
\* the product has no such field
BundleProduct(id, productLineId, lineId) ==
    [id |-> id, name |-> "Casement", productLineId |-> productLineId, lineId |-> lineId]

BundleLine(id) == [id |-> id, manufacturerId |-> "m1", name |-> "Series"]

BundleProductMaps ==
    { ("p1" :> BundleProduct("p1", pl, l)) : pl \in {Null, "", "L3"}, l \in {Null, "L9"} }
    \cup { ("p1" :> BundleProduct("p1", Null, l)) @@ ("p2" :> BundleProduct("p2", Null, "L8")) :
              l \in {Null, "L9"} }

\* what exportAll gives for the other keys of a store with no catalog whose
\* settings were changed
RestOfBundle ==
    [manufacturers |-> EmptyMap, addons |-> EmptyMap, quotes |-> EmptyMap,
     quoteVersions |-> EmptyMap,
     globalSettings |-> [DefaultSettings EXCEPT !.minimumUI = 70]]

\* the bundles that have the key, with one of the values, or do not have it
WithKey(bundles, key, values) ==
    bundles \cup { (key :> v) @@ data : v \in values, data \in bundles }

\* backups, whole or cut down to some of their keys
Bundles ==
    WithKey(WithKey(WithKey({ [globalSettings |-> DefaultSettings] },
        "pricingVersions", { <<>> }),
        "productLines", { <<>>, <<BundleLine("L2"), BundleLine("L1")>> }),
        "products", BundleProductMaps)
    \cup { RestOfBundle }

\* the number of operations of a run with backups
MaxImportSteps == 2

\* a backup is restored
ImportAll ==
    /\ steps < MaxImportSteps
    /\ steps' = steps + 1
    /\ \E data \in Bundles : \E failed \in SUBSET DOMAIN data :
          /\ localStorage' = importAll(localStorage, data, failed)
          /\ call' = [op |-> "importAll", data |-> data, failed |-> failed]
    /\ UNCHANGED <<pc, ret, clock, memVars>>

NextImport ==
    \/ Tick
    \/ PublishPricingVersion
    \/ ImportAll

SpecImport == Init /\ [][NextImport]_vars

\* the first product line id after the import, Null if there is no line
FirstLineId(ls) ==
    IF Len(getProductLines(ls)) = 0 THEN Null ELSE getProductLines(ls)[1].id

\* what the claim asks of a product that arrived as `arrived`
MigratedAs(arrived, stored, firstLineId) ==
    /\ stored.id = arrived.id /\ stored.name = arrived.name /\ stored.lineId = arrived.lineId
    /\ stored.productLineId =
          IF Truthy(arrived.productLineId) THEN arrived.productLineId
          ELSE IF Truthy(arrived.lineId) THEN arrived.lineId
          ELSE IF firstLineId # Null THEN firstLineId
          ELSE arrived.productLineId

\* the first product line id of a product-line mapping, Null if it is empty
FirstOf(productLines) == IF Len(productLines) = 0 THEN Null ELSE productLines[1].id

\* C16: after importAll of a bundle with products, when the storage has
\* taken the write of the products, every product of the bundle is stored;
\* one that arrived with a productLineId keeps it, one without it but with a
\* lineId has productLineId = lineId, one with neither has the first product
\* line id of the bundle, or of the store when the bundle has no product
\* lines, if there is any product line.  (When setItem throws on the
\* products, nothing that arrived is stored.)
C16_ProductsMigrated ==
    call.op = "importAll" /\ "products" \in DOMAIN call.data
                          /\ "products" \notin call.failed =>
        LET stored == getProducts(localStorage)
            firstLineId == IF "productLines" \in DOMAIN call.data
                           THEN FirstOf(call.data.productLines)
                           ELSE FirstLineId(localStorage)
        IN  /\ DOMAIN stored = DOMAIN call.data.products
            /\ \A id \in DOMAIN stored :
                  MigratedAs(call.data.products[id], stored[id], firstLineId)

\* C16 witness: a bundle of products only was written; the store holds a
\* product migrated from its lineId next to one that got the first of the
\* two product lines of the store
C16_Witness ==
    LET stored == getProducts(localStorage) IN
    /\ call.op = "importAll" /\ DOMAIN call.data = {"globalSettings", "products"}
    /\ "products" \notin call.failed
    /\ FirstLineId(localStorage) = "L2"
    /\ DOMAIN stored = {"p1", "p2"}
    /\ stored["p1"].lineId = Null /\ stored["p1"].productLineId = "L2"
    /\ stored["p2"].lineId = "L8" /\ stored["p2"].productLineId = "L8"

\* C19: once set, the current-version pointer is the id of a version in the
\* stored pricing-version list
C19_CurrentVersionStored ==
    CURRENT_VERSION \in DOMAIN localStorage =>
        IsSet(loadPricingVersion(localStorage, localStorage[CURRENT_VERSION]))

----------------------------------------------------------------------------
(* The caller's memory: a live lineItems array, the snapshot taken of it   *)
(* and the caller's later mutations of the original                        *)

MaxMutations == 3

MutatedPrices == {0, 99}

ExtraEntry == [id |-> "zz", name |-> "late", price |-> 7, hidden |-> FALSE]

\* the references of the caller's line item objects
ItemRefs == heap[lineItemsRef].elems

InitSnapshot ==
    /\ \E items \in SeqsUpTo(SampleLineItems, MaxLineItems) :
          LET mem == ParseLineItems(<<>>, items)
          IN  heap = mem.heap /\ lineItemsRef = mem.ref
    /\ created = NoVersion
    /\ StoreIdle
    /\ EngineIdle

MemStep ==
    /\ steps < MaxMutations
    /\ steps' = steps + 1
    /\ UNCHANGED <<engineVars, localStorage, lineItemsRef>>

\* createQuoteVersion({quoteId, lineItems, salesUplift}) on the live array
CreateQuoteVersion ==
    /\ MemStep
    /\ \E u \in {-1, 2} : \E stamp \in ClockReads(clock) :
          LET r == createQuoteVersion(heap, "q1", lineItemsRef, u, "meta", clock, stamp)
          IN  /\ IF r.error = NoError
                 THEN heap' = r.heap /\ created' = r.version
                 ELSE UNCHANGED <<heap, created>>
              /\ clock' = stamp

\* lineItems.push(item)
PushLineItem ==
    /\ MemStep
    /\ Len(ItemRefs) < MaxLineItems
    /\ \E item \in SampleLineItems :
          LET p == ParseItem(heap, item)
          IN  heap' = [p.heap EXCEPT ![lineItemsRef].elems = Append(@, p.ref)]
    /\ UNCHANGED <<created, clock>>

\* lineItems.pop()
PopLineItem ==
    /\ MemStep
    /\ Len(ItemRefs) > 0
    /\ heap' = [heap EXCEPT ![lineItemsRef].elems = SubSeq(@, 1, Len(@) - 1)]
    /\ UNCHANGED <<created, clock>>

\* lineItems[i].lineItemParTotal = v
SetLineItemTotal ==
    /\ MemStep
    /\ \E i \in 1..Len(ItemRefs) : \E v \in MutatedPrices :
          heap' = [heap EXCEPT ![ItemRefs[i]].lineItemParTotal = v]
    /\ UNCHANGED <<created, clock>>

\* lineItems[i].appliedAddons[j].price = v
SetAppliedAddonPrice ==
    /\ MemStep
    /\ \E i \in 1..Len(ItemRefs) :
          LET entries == heap[heap[ItemRefs[i]].appliedAddons].elems IN
          \E j \in 1..Len(entries) : \E v \in MutatedPrices :
             heap' = [heap EXCEPT ![entries[j]].price = v]
    /\ UNCHANGED <<created, clock>>

\* lineItems[i].appliedAddons.push(entry)
PushAppliedAddon ==
    /\ MemStep
    /\ \E i \in 1..Len(ItemRefs) :
          LET arr == heap[ItemRefs[i]].appliedAddons
              h1 == Append(heap, ExtraEntry)
          IN  heap' = [h1 EXCEPT ![arr].elems = Append(@, Len(h1))]
    /\ UNCHANGED <<created, clock>>

NextSnapshot ==
    \/ CreateQuoteVersion
    \/ PushLineItem
    \/ PopLineItem
    \/ SetLineItemTotal
    \/ SetAppliedAddonPrice
    \/ PushAppliedAddon

SpecSnapshot == InitSnapshot /\ [][NextSnapshot]_vars

\* C10: the lineItems of a returned QuoteVersion are decoupled from the
\* caller's data: no later mutation of the original array, of a line item or
\* of an appliedAddons entry changes the version's lineItems, totalParPrice
\* or finalPrice.
C10_SnapshotDecoupled ==
    [][(created # NoVersion /\ created' = created)
          => VersionJSON(heap', created') = VersionJSON(heap, created)]_vars

\* C10 witness: after the snapshot the caller has overwritten a line item's
\* total and an applied addon's price, and the version still holds the old ones
C10_Witness ==
    /\ created # NoVersion
    /\ Len(ItemRefs) >= 1
    /\ LET live == LineItemsAt(heap, lineItemsRef)
           kept == LineItemsAt(heap, created.lineItems)
       IN  /\ Len(kept) >= 1
           /\ live[1].lineItemParTotal = 99
           /\ kept[1].lineItemParTotal # 99
           /\ Len(kept[1].appliedAddons) >= 1
           /\ live[1].appliedAddons[1].price = 0
           /\ kept[1].appliedAddons[1].price # 0
           /\ created.totalParPrice = SumPar(kept, 1)

----------------------------------------------------------------------------
(* Version codec: exportAsCSV, importFromCSV, importFromJSON                *)
(*                                                                         *)
(* A text is a sequence of tokens.  The characters that matter to the CSV  *)
(* parser are tokens of their own: Quote, Comma, Space, Semi, LF, Dot, the *)
(* signs and the digits; the words the codec writes (the labels, YES, NO,  *)
(* UI, FLAT, undefined, null) and the letters and ids of the catalog are   *)
(* tokens too.  A number n stands for n / 2, so that 131 is 65.5; a        *)
(* fraction is kept to the half below.                                     *)

Quote == "\""
Comma == ","
Space == " "
Semi == ";"
LF == "LF"
Dot == "."
Minus == "-"
Plus == "+"

(* JavaScript values, tagged with their type.  The s of a string is a     *)
(* text, the items of an array are texts.                                  *)

JNull == [t |-> "null"]
JUndefined == [t |-> "undefined"]
JNaN == [t |-> "NaN"]
JNumber(n) == [t |-> "number", n |-> n]
JString(s) == [t |-> "string", s |-> s]
JBoolean(b) == [t |-> "boolean", b |-> b]
JArray(items) == [t |-> "array", items |-> items]
JObject(members) == [t |-> "object", v |-> members]

\* truthiness of a value: null, undefined, NaN, 0, '' and false are falsy
TruthyJ(x) ==
    /\ x.t \notin {"null", "undefined", "NaN"}
    /\ x.t = "string" => x.s # <<>>
    /\ x.t = "number" => x.n # 0
    /\ x.t = "boolean" => x.b

\* entity.field: undefined when the entity has no such property
Prop(entity, field) == IF field \in DOMAIN entity THEN entity[field] ELSE JUndefined

DigitTokens == <<"0", "1", "2", "3", "4", "5", "6", "7", "8", "9">>

IsDigit(t) == \E d \in 1..10 : DigitTokens[d] = t

DigitValue(t) == (CHOOSE d \in 1..10 : DigitTokens[d] = t) - 1

RECURSIVE Digits(_)
\* the decimal digits of a natural number
Digits(n) ==
    IF n < 10 THEN <<DigitTokens[n + 1]>>
    ELSE Digits(n \div 10) \o <<DigitTokens[(n % 10) + 1]>>

\* `${n}` for a number: 6 -> "3", 131 -> "65.5", -3 -> "-1.5"
NumberText(n) ==
    LET abs == IF n < 0 THEN -n ELSE n
    IN  (IF n < 0 THEN <<Minus>> ELSE <<>>)
        \o Digits(abs \div 2) \o (IF abs % 2 = 1 THEN <<Dot, "5">> ELSE <<>>)

RECURSIVE Join(_, _)
\* Array.prototype.join(sep)
Join(parts, sep) ==
    IF parts = <<>> THEN <<>>
    ELSE IF Len(parts) = 1 THEN parts[1]
    ELSE parts[1] \o sep \o Join(Tail(parts), sep)

\* `${x}`: the text a template literal writes for a value
TemplateOf(x) ==
    IF x.t = "string" THEN x.s
    ELSE IF x.t = "number" THEN NumberText(x.n)
    ELSE IF x.t = "boolean" THEN (IF x.b THEN <<"true">> ELSE <<"false">>)
    ELSE IF x.t = "array" THEN Join(x.items, <<Comma>>)
    ELSE IF x.t = "object" THEN <<"[object Object]">>
    ELSE <<x.t>>

RECURSIVE DigitPrefix(_, _)
\* the value of the leading digits of a text; -1 if there is none
DigitPrefix(text, acc) ==
    IF text = <<>> \/ ~IsDigit(Head(text)) THEN acc
    ELSE DigitPrefix(Tail(text), (IF acc < 0 THEN 0 ELSE acc * 10) + DigitValue(Head(text)))

RECURSIVE DropDigits(_)
DropDigits(text) ==
    IF text = <<>> \/ ~IsDigit(Head(text)) THEN text ELSE DropDigits(Tail(text))

IsSpace(t) == t = Space \/ t = LF

RECURSIVE TrimLeft(_)
TrimLeft(text) ==
    IF text # <<>> /\ IsSpace(Head(text)) THEN TrimLeft(Tail(text)) ELSE text

RECURSIVE TrimRight(_)
TrimRight(text) ==
    IF text # <<>> /\ IsSpace(text[Len(text)])
    THEN TrimRight(SubSeq(text, 1, Len(text) - 1)) ELSE text

\* String.prototype.trim
Trim(text) == TrimRight(TrimLeft(text))

\* the sign a number text starts with, and the text after it
SignOf(text) == IF text # <<>> /\ Head(text) = Minus THEN -1 ELSE 1

Unsigned(text) ==
    IF text # <<>> /\ Head(text) \in {Minus, Plus} THEN Tail(text) ELSE text

\* the hexadecimal digits a token starts with, for the tokens that start
\* with one
HexDigitsOf ==
    ("0" :> <<0>>) @@
    ("1" :> <<1>>) @@
    ("2" :> <<2>>) @@
    ("3" :> <<3>>) @@
    ("4" :> <<4>>) @@
    ("5" :> <<5>>) @@
    ("6" :> <<6>>) @@
    ("7" :> <<7>>) @@
    ("8" :> <<8>>) @@
    ("9" :> <<9>>) @@
    ("A" :> <<10>>) @@
    ("A1" :> <<10, 1>>) @@
    ("ADDONS" :> <<10, 13, 13>>) @@
    ("ALLOWED" :> <<10>>) @@
    ("Allowed" :> <<10>>) @@
    ("B" :> <<11>>) @@
    ("BASED" :> <<11, 10>>) @@
    ("Based" :> <<11, 10>>) @@
    ("CODE" :> <<12>>) @@
    ("CUSTOMER" :> <<12>>) @@
    ("Code" :> <<12>>) @@
    ("Customer" :> <<12>>) @@
    ("DH" :> <<13>>) @@
    ("EXCLUSIVE" :> <<14>>) @@
    ("Exclusive" :> <<14>>) @@
    ("FALSE" :> <<15, 10>>) @@
    ("FLAT" :> <<15>>) @@
    ("FROM" :> <<15>>) @@
    ("Flat" :> <<15>>) @@
    ("From" :> <<15>>) @@
    ("a" :> <<10>>) @@
    ("a1" :> <<10, 1>>) @@
    ("b" :> <<11>>) @@
    ("false" :> <<15, 10>>)

\* the tokens that are hexadecimal digits throughout
HexTokens == {"0", "1", "2", "3", "4", "5", "6", "7", "8", "9", "A", "A1", "B", "a", "a1", "b"}

RECURSIVE HexValue(_, _)
\* the value of a sequence of hexadecimal digits after acc; -1 is no digit
HexValue(digits, acc) ==
    IF digits = <<>> THEN acc
    ELSE HexValue(Tail(digits), (IF acc < 0 THEN 0 ELSE acc * 16) + Head(digits))

RECURSIVE HexPrefix(_, _)
\* the value of the leading hexadecimal digits of a text; -1 if there is none
HexPrefix(text, acc) ==
    IF text = <<>> \/ Head(text) \notin DOMAIN HexDigitsOf THEN acc
    ELSE IF Head(text) \in HexTokens
    THEN HexPrefix(Tail(text), HexValue(HexDigitsOf[Head(text)], acc))
    ELSE HexValue(HexDigitsOf[Head(text)], acc)

\* the text starts with 0x or 0X
IsHex(text) == Len(text) >= 2 /\ text[1] = "0" /\ text[2] \in {"x", "X"}

\* parseInt(x), no radix given: leading white space, a sign, then the digits
\* after 0x or 0X read as hexadecimal, or else decimal digits; NaN without a
\* digit
parseInt(x) ==
    IF x.t # "string" THEN JNaN
    ELSE LET text == TrimLeft(x.s)
             rest == Unsigned(text)
             whole == IF IsHex(rest) THEN HexPrefix(SubSeq(rest, 3, Len(rest)), -1)
                      ELSE DigitPrefix(rest, -1)
         IN  IF whole < 0 THEN JNaN ELSE JNumber(SignOf(text) * 2 * whole)

\* parseFloat(x): leading white space, a sign, decimal digits, then a dot and
\* digits (0x is the digit 0 here); NaN when there is a digit neither before
\* nor after the dot
parseFloat(x) ==
    IF x.t # "string" THEN JNaN
    ELSE LET text == TrimLeft(x.s)
             whole == DigitPrefix(Unsigned(text), -1)
             rest == DropDigits(Unsigned(text))
             fraction == Len(rest) >= 2 /\ rest[1] = Dot /\ IsDigit(rest[2])
             half == IF fraction /\ DigitValue(rest[2]) >= 5 THEN 1 ELSE 0
         IN  IF whole < 0 /\ ~fraction THEN JNaN
             ELSE JNumber(SignOf(text) * (2 * (IF whole < 0 THEN 0 ELSE whole) + half))

\* String.prototype.split(sep) for a one-token separator: the parts between
\* consecutive separators, the ends of the text counting as separators
Split(text, sep) ==
    LET at == { i \in 1..Len(text) : text[i] = sep } \cup {0, Len(text) + 1}
        nth(k) == CHOOSE i \in at : Cardinality({ j \in at : j < i }) = k
    IN  [k \in 1..(Cardinality(at) - 1) |-> SubSeq(text, nth(k - 1) + 1, nth(k) - 1)]

RECURSIVE Without(_, _)
\* text.replace(/t/g, '')
Without(text, t) ==
    IF text = <<>> THEN <<>>
    ELSE IF Head(text) = t THEN Without(Tail(text), t)
    ELSE <<Head(text)>> \o Without(Tail(text), t)

\* the upper case of the tokens that have lower-case letters
UpperCaseOf ==
    ("Name" :> "NAME") @@
    ("Manufacturer" :> "MANUFACTURER") @@
    ("Product" :> "PRODUCT") @@
    ("Line" :> "LINE") @@
    ("Type" :> "TYPE") @@
    ("Code" :> "CODE") @@
    ("Pricing" :> "PRICING") @@
    ("Model" :> "MODEL") @@
    ("Rate" :> "RATE") @@
    ("Flat" :> "FLAT") @@
    ("Price" :> "PRICE") @@
    ("Minimum" :> "MINIMUM") @@
    ("Maximum" :> "MAXIMUM") @@
    ("Exclusive" :> "EXCLUSIVE") @@
    ("Group" :> "GROUP") @@
    ("Mandatory" :> "MANDATORY") @@
    ("Hidden" :> "HIDDEN") @@
    ("From" :> "FROM") @@
    ("Customer" :> "CUSTOMER") @@
    ("Job" :> "JOB") @@
    ("Based" :> "BASED") @@
    ("Allowed" :> "ALLOWED") @@
    ("Types" :> "TYPES") @@
    ("Lines" :> "LINES") @@
    ("Min" :> "MIN") @@
    ("Max" :> "MAX") @@
    ("Size" :> "SIZE") @@
    ("a" :> "A") @@
    ("b" :> "B") @@
    ("g" :> "G") @@
    ("m1" :> "M1") @@
    ("p1" :> "P1") @@
    ("p2" :> "P2") @@
    ("a1" :> "A1") @@
    ("undefined" :> "UNDEFINED") @@
    ("null" :> "NULL") @@
    ("NaN" :> "NAN") @@
    ("true" :> "TRUE") @@
    ("false" :> "FALSE") @@
    ("pricing_v1" :> "PRICING_V1") @@
    ("x" :> "X") @@
    ("[object Object]" :> "[OBJECT OBJECT]")

UpperToken(t) == IF t \in DOMAIN UpperCaseOf THEN UpperCaseOf[t] ELSE t

\* String.prototype.toUpperCase
toUpperCase(text) == [i \in 1..Len(text) |-> UpperToken(text[i])]

RECURSIVE parseLoop(_, _, _, _)
\* the character loop of parseCSVLine
parseLoop(line, current, inQuotes, values) ==
    IF line = <<>> THEN Append(values, Trim(current))
    ELSE LET char == Head(line) IN
         IF char = Quote THEN parseLoop(Tail(line), current, ~inQuotes, values)
         ELSE IF char = Comma /\ ~inQuotes
         THEN parseLoop(Tail(line), <<>>, inQuotes, Append(values, Trim(current)))
         ELSE parseLoop(Tail(line), Append(current, char), inQuotes, values)

parseCSVLine(line) ==
    LET values == parseLoop(line, <<>>, FALSE, <<>>)
    IN  [i \in 1..Len(values) |-> Without(values[i], Quote)]

(* exportAsCSV.  An entity is a record of JavaScript values.               *)

\* x || ''
OrEmpty(x) == IF TruthyJ(x) THEN x ELSE JString(<<>>)

\* (list || []).join('; ')
ListText(x) == Join(IF TruthyJ(x) THEN x.items ELSE <<>>, <<Semi, Space>>)

\* flag ? 'YES' : 'NO'
YesNo(x) == IF TruthyJ(x) THEN <<"YES">> ELSE <<"NO">>

\* one line of the file: every cell between double quotes, cells separated
\* by commas, the line ended by a line feed
Row(cells) ==
    Join([i \in 1..Len(cells) |-> <<Quote>> \o cells[i] \o <<Quote>>], <<Comma>>) \o <<LF>>

RECURSIVE Rows(_)
\* the lines of a section, one per entity
Rows(cellRows) ==
    IF cellRows = <<>> THEN <<>>
    ELSE Row(Head(cellRows)) \o Rows(Tail(cellRows))

manufacturerCells(m) == <<TemplateOf(Prop(m, "id")), TemplateOf(Prop(m, "name"))>>

productLineCells(pl) ==
    <<TemplateOf(Prop(pl, "id")), TemplateOf(Prop(pl, "manufacturerId")),
      TemplateOf(Prop(pl, "name"))>>

productCells(p) ==
    <<TemplateOf(Prop(p, "id")), TemplateOf(Prop(p, "productLineId")),
      TemplateOf(Prop(p, "productType")), TemplateOf(Prop(p, "productTypeCode")),
      TemplateOf(Prop(p, "name")), TemplateOf(Prop(p, "pricingModel")),
      TemplateOf(OrEmpty(Prop(p, "uiRate"))), TemplateOf(OrEmpty(Prop(p, "flatPrice"))),
      TemplateOf(Prop(p, "minimumUI")), TemplateOf(OrEmpty(Prop(p, "maximumUI")))>>

addonCells(a) ==
    <<TemplateOf(Prop(a, "id")), TemplateOf(Prop(a, "name")),
      TemplateOf(Prop(a, "pricingModel")),
      TemplateOf(OrEmpty(Prop(a, "uiRate"))), TemplateOf(OrEmpty(Prop(a, "flatPrice"))),
      TemplateOf(OrEmpty(Prop(a, "exclusiveGroup"))),
      YesNo(Prop(a, "mandatory")), YesNo(Prop(a, "hiddenFromCustomer")),
      YesNo(Prop(a, "isJobBased")),
      ListText(Prop(a, "allowedProductTypes")), ListText(Prop(a, "allowedProductLines")),
      TemplateOf(OrEmpty(Prop(a, "minSize"))), TemplateOf(OrEmpty(Prop(a, "maxSize")))>>

ManufacturersLabel == <<"MANUFACTURERS">>
ProductLinesLabel == <<"PRODUCT", Space, "LINES">>
ProductsLabel == <<"PRODUCTS">>
AddonsLabel == <<"ADDONS">>

ManufacturersColumns ==
    <<"ID", Comma, "Name">>

ProductLinesColumns ==
    <<"ID", Comma, "Manufacturer", Space, "ID", Comma, "Name">>

ProductsColumns ==
    <<"ID", Comma, "Product", Space, "Line", Space, "ID", Comma, "Product",
      Space, "Type", Comma, "Type", Space, "Code", Comma, "Name", Comma,
      "Pricing", Space, "Model", Comma, "UI", Space, "Rate", Comma, "Flat",
      Space, "Price", Comma, "Minimum", Space, "UI", Comma, "Maximum", Space,
      "UI">>

AddonsColumns ==
    <<"ID", Comma, "Name", Comma, "Pricing", Space, "Model", Comma, "UI",
      Space, "Rate", Comma, "Flat", Space, "Price", Comma, "Exclusive",
      Space, "Group", Comma, "Mandatory", Comma, "Hidden", Space, "From",
      Space, "Customer", Comma, "Job", Space, "Based", Comma, "Allowed",
      Space, "Product", Space, "Types", Comma, "Allowed", Space, "Product",
      Space, "Lines", Comma, "Min", Space, "Size", Comma, "Max", Space,
      "Size">>

\* the text exportAsCSV hands to downloadFile; the collections of a version
\* are the sequences Object.values gives
exportAsCSV(version) ==
    ManufacturersLabel \o <<LF>> \o ManufacturersColumns \o <<LF>>
        \o Rows([i \in 1..Len(version.manufacturers) |->
                    manufacturerCells(version.manufacturers[i])]) \o <<LF>>
    \o ProductLinesLabel \o <<LF>> \o ProductLinesColumns \o <<LF>>
        \o Rows([i \in 1..Len(version.productLines) |->
                    productLineCells(version.productLines[i])]) \o <<LF>>
    \o ProductsLabel \o <<LF>> \o ProductsColumns \o <<LF>>
        \o Rows([i \in 1..Len(version.products) |->
                    productCells(version.products[i])]) \o <<LF>>
    \o AddonsLabel \o <<LF>> \o AddonsColumns \o <<LF>>
        \o Rows([i \in 1..Len(version.addons) |-> addonCells(version.addons[i])])

(* importFromCSV *)

\* values[k], k counted from 0
At(values, k) == IF k + 1 <= Len(values) THEN JString(values[k + 1]) ELSE JUndefined

\* x || 0
OrZero(x) == IF TruthyJ(x) THEN x ELSE JNumber(0)

\* x || null
OrNull(x) == IF TruthyJ(x) THEN x ELSE JNull

\* value ? parseInt(value) : null
IntOrNull(x) == IF TruthyJ(x) THEN parseInt(x) ELSE JNull

\* value ? parseFloat(value) : null
FloatOrNull(x) == IF TruthyJ(x) THEN parseFloat(x) ELSE JNull

\* if (entity.pricingModel === model && value) entity[field] = parseFloat(value)
WithPrice(entity, model, field, x) ==
    IF entity.pricingModel = JString(<<model>>) /\ TruthyJ(x)
    THEN (field :> parseFloat(x)) @@ entity
    ELSE entity

\* value ? value.split(';').map(trim).filter(nonempty) : null
ListOrNull(x) ==
    IF TruthyJ(x)
    THEN LET parts == Split(x.s, Semi)
         IN  JArray(SelectSeq([i \in 1..Len(parts) |-> Trim(parts[i])], LAMBDA t : t # <<>>))
    ELSE JNull

\* value.toUpperCase() === 'YES'
IsYes(x) == JBoolean(toUpperCase(x.s) = <<"YES">>)

TypeError == "TypeError"

importManufacturer(values) == [id |-> At(values, 0), name |-> At(values, 1)]

importProductLine(values) ==
    [id |-> At(values, 0), manufacturerId |-> At(values, 1), name |-> At(values, 2)]

importProduct(values) ==
    LET product == [id |-> At(values, 0),
                    productLineId |-> At(values, 1),
                    productType |-> At(values, 2),
                    productTypeCode |-> At(values, 3),
                    name |-> At(values, 4),
                    pricingModel |-> At(values, 5),
                    minimumUI |-> OrZero(parseInt(At(values, 8))),
                    maximumUI |-> IntOrNull(At(values, 9))]
    IN  WithPrice(WithPrice(product, "UI", "uiRate", At(values, 6)),
                  "FLAT", "flatPrice", At(values, 7))

\* the flags call toUpperCase on the cell, which throws on a missing cell
addonThrows(values) == Len(values) < 9

importAddon(values) ==
    LET addon == [id |-> At(values, 0),
                  name |-> At(values, 1),
                  pricingModel |-> At(values, 2),
                  exclusiveGroup |-> OrNull(At(values, 5)),
                  mandatory |-> IsYes(At(values, 6)),
                  hiddenFromCustomer |-> IsYes(At(values, 7)),
                  isJobBased |-> IsYes(At(values, 8)),
                  minSize |-> FloatOrNull(At(values, 11)),
                  maxSize |-> FloatOrNull(At(values, 12))]
        priced == WithPrice(WithPrice(addon, "UI", "uiRate", At(values, 3)),
                            "FLAT", "flatPrice", At(values, 4))
    IN  ("allowedProductTypes" :> ListOrNull(At(values, 9))) @@
        ("allowedProductLines" :> ListOrNull(At(values, 10))) @@ priced

EmptyData ==
    [manufacturers |-> EmptyMap, productLines |-> EmptyMap,
     products |-> EmptyMap, addons |-> EmptyMap]

\* data[section][entity.id] = entity
Put(data, section, entity) ==
    [data EXCEPT ![section] = (entity.id.s :> entity) @@ data[section]]

SectionOf(line) ==
    IF line = ManufacturersLabel THEN "manufacturers"
    ELSE IF line = ProductLinesLabel THEN "productLines"
    ELSE IF line = ProductsLabel THEN "products"
    ELSE IF line = AddonsLabel THEN "addons"
    ELSE Null

RECURSIVE importLoop(_, _, _, _)
\* the loop of importFromCSV over the lines from the i-th on
importLoop(lines, i, currentSection, data) ==
    IF i > Len(lines) THEN [error |-> NoError, data |-> data]
    ELSE LET line == Trim(lines[i])
             values == parseCSVLine(line)
         IN  IF SectionOf(line) # Null THEN importLoop(lines, i + 2, SectionOf(line), data)
             ELSE IF line = <<>> THEN importLoop(lines, i + 1, currentSection, data)
             ELSE IF currentSection = "manufacturers" /\ Len(values) >= 2
             THEN importLoop(lines, i + 1, currentSection,
                             Put(data, "manufacturers", importManufacturer(values)))
             ELSE IF currentSection = "productLines" /\ Len(values) >= 3
             THEN importLoop(lines, i + 1, currentSection,
                             Put(data, "productLines", importProductLine(values)))
             ELSE IF currentSection = "products" /\ Len(values) >= 5
             THEN importLoop(lines, i + 1, currentSection,
                             Put(data, "products", importProduct(values)))
             ELSE IF currentSection = "addons" /\ Len(values) >= 4
             THEN IF addonThrows(values) THEN [error |-> TypeError, data |-> data]
                  ELSE importLoop(lines, i + 1, currentSection,
                                  Put(data, "addons", importAddon(values)))
             ELSE importLoop(lines, i + 1, currentSection, data)

importFromCSV(content) == importLoop(Split(Trim(content), LF), 1, Null, EmptyData)

(* importFromJSON.  The content of a file is either malformed or the text *)
(* of one JSON value.                                                      *)

SyntaxError == "SyntaxError"
InvalidVersionFormat == "Invalid version JSON format"

VersionKeys == {"manufacturers", "productLines", "products", "addons"}

\* JSON.parse(content)
JSONparse(content) ==
    IF content.kind = "malformed" THEN [error |-> SyntaxError, value |-> JUndefined]
    ELSE [error |-> NoError, value |-> content.value]

\* document.key
Member(document, key) ==
    IF document.t = "object" /\ key \in DOMAIN document.v THEN document.v[key]
    ELSE JUndefined

\* x || {}
OrEmptyObject(x) == IF TruthyJ(x) THEN x ELSE JObject(EmptyMap)

importFromJSON(content) ==
    LET parsed == JSONparse(content)
        versionData == parsed.value
    IN  IF parsed.error # NoError THEN [error |-> parsed.error, value |-> EmptyMap]
        ELSE IF versionData.t = "null" THEN [error |-> TypeError, value |-> EmptyMap]
        ELSE IF ~TruthyJ(Member(versionData, "id")) \/ ~TruthyJ(Member(versionData, "manufacturers"))
        THEN [error |-> InvalidVersionFormat, value |-> EmptyMap]
        ELSE [error |-> NoError,
              value |-> [k \in VersionKeys |-> OrEmptyObject(Member(versionData, k))]]

----------------------------------------------------------------------------
(* Inputs of the codec *)

Text(token) == JString(<<token>>)

Names == { <<"a">>, <<"a", Comma, "b">>, <<"a", Quote>>, <<Space, "a">>, <<"a", LF, "b">> }

CodecManufacturer(name) == [id |-> Text("m1"), name |-> name]

CodecProductLine(name) ==
    [id |-> Text("L1"), manufacturerId |-> Text("m1"), name |-> name]

CodecProduct(id, name, typeCode, pricingModel, uiRate, flatPrice, minimumUI, maximumUI, allowedAddons) ==
    [id |-> Text(id), productLineId |-> Text("L1"), productType |-> Text("SH"),
     productTypeCode |-> typeCode, name |-> JString(name), pricingModel |-> Text(pricingModel),
     uiRate |-> uiRate, flatPrice |-> flatPrice,
     minimumUI |-> minimumUI, maximumUI |-> maximumUI, allowedAddons |-> allowedAddons]

CodecAddon(name, pricingModel, uiRate, flatPrice, exclusiveGroup, mandatory, types, minSize) ==
    [id |-> Text("a1"), name |-> JString(name), pricingModel |-> Text(pricingModel),
     uiRate |-> uiRate, flatPrice |-> flatPrice, exclusiveGroup |-> exclusiveGroup,
     mandatory |-> JBoolean(mandatory), hiddenFromCustomer |-> JBoolean(mandatory),
     isJobBased |-> JBoolean(FALSE),
     allowedProductTypes |-> types, allowedProductLines |-> JNull,
     minSize |-> minSize, maxSize |-> JNull]

\* rates, prices and bounds in halves: 5 is 2.5, 131 is 65.5
CodecProducts ==
    { CodecProduct("p1", name, typeCode, pricingModel, uiRate, flatPrice, minimumUI, maximumUI, allowedAddons) :
        name \in {<<"a">>, <<"a", Quote>>, <<"a", Comma, "b">>},
        typeCode \in {JUndefined, JNull, Text("SH")},
        pricingModel \in {"UI", "FLAT"},
        uiRate \in {JUndefined, JNumber(0), JNumber(6), JNumber(5)},
        flatPrice \in {JUndefined, JNumber(80)},
        minimumUI \in {JNull, JNumber(0), JNumber(130), JNumber(131)},
        maximumUI \in {JNull, JNumber(160)},
        allowedAddons \in {JUndefined, JArray(<< <<"a1">> >>)} }

CodecAddons ==
    { CodecAddon(name, pricingModel, uiRate, flatPrice, exclusiveGroup, mandatory, types, minSize) :
        name \in {<<"a">>, <<Space, "a">>},
        pricingModel \in {"UI", "FLAT"},
        uiRate \in {JUndefined, JNumber(4)},
        flatPrice \in {JUndefined, JNumber(0), JNumber(10)},
        exclusiveGroup \in {JNull, Text("g")},
        mandatory \in BOOLEAN,
        types \in {JNull, JArray(<<>>), JArray(<< <<"SH">>, <<"DH">> >>)},
        minSize \in {JNull, JNumber(100)} }

PlainProduct(id) ==
    CodecProduct(id, <<"a">>, Text("SH"), "UI", JNumber(6), JUndefined,
                 JNumber(130), JNumber(160), JUndefined)

CodecVersion(manufacturers, productLines, products, addons) ==
    [manufacturers |-> manufacturers, productLines |-> productLines,
     products |-> products, addons |-> addons]

CodecVersions ==
    { CodecVersion(<<CodecManufacturer(JString(n))>>, <<>>, <<>>, <<>>) : n \in Names }
    \cup { CodecVersion(<<CodecManufacturer(JNull)>>, <<>>, <<>>, <<>>) }
    \cup { CodecVersion(<<>>, <<CodecProductLine(JString(n))>>, <<>>, <<>>) : n \in Names }
    \cup { CodecVersion(<<>>, <<>>, <<p>>, <<>>) : p \in CodecProducts }
    \cup { CodecVersion(<<>>, <<>>, <<>>, <<a>>) : a \in CodecAddons }
    \cup { CodecVersion(<<CodecManufacturer(JString(<<"a">>))>>,
                        <<CodecProductLine(JString(<<"a">>))>>,
                        <<PlainProduct("p1"), PlainProduct("p2")>>, <<a>>) : a \in CodecAddons }
    \cup { CodecVersion(<<>>, <<>>, <<>>, <<>>) }

CollectionValues == { JNull, JObject(EmptyMap), JObject("m1" :> JString(<<"x">>)) }

IdValues == { JNull, JString(<<>>), JString(<<"pricing_v1">>) }

\* the values a member of a document can take
MemberValues(key) == IF key = "id" THEN IdValues ELSE CollectionValues

Documents ==
    UNION { { JObject(members) : members \in [keys -> IdValues \cup CollectionValues] } :
            keys \in SUBSET ({"id"} \cup VersionKeys) }

TypedDocuments ==
    { d \in Documents : \A k \in DOMAIN d.v : d.v[k] \in MemberValues(k) }

JSONContents ==
    { [kind |-> "malformed"] }
    \cup { [kind |-> "json", value |-> JNull] }
    \cup { [kind |-> "json", value |-> d] : d \in TypedDocuments }

CodecCalls ==
    { [op |-> "exportAsCSV", version |-> v] : v \in CodecVersions }
    \cup { [op |-> "importFromJSON", content |-> c] : c \in JSONContents }

\* the version is written to a file
ExportAsCSVCall ==
    /\ pc = "input" /\ call.op = "exportAsCSV"
    /\ pc' = "exported"
    /\ ret' = exportAsCSV(call.version)
    /\ UNCHANGED <<call, storeVars, memVars>>

\* the file is read back
ImportFromCSVCall ==
    /\ pc = "exported"
    /\ Return(importFromCSV(ret))

ImportFromJSONCall ==
    /\ pc = "input" /\ call.op = "importFromJSON"
    /\ Return(importFromJSON(call.content))

NextCodec ==
    \/ ExportAsCSVCall
    \/ ImportFromCSVCall
    \/ ImportFromJSONCall

\* a version exported as CSV and imported again, and importFromJSON on documents
SpecCodec == EngineInit(CodecCalls) /\ [][NextCodec]_vars

(* Properties of the codec *)

Sections == <<"manufacturers", "productLines", "products", "addons">>

CSVReimported == Returned("exportAsCSV")

\* the entities of the exported version, each with its section
EntitiesOfCall ==
    { <<s, i>> \in (1..4) \X (1..2) : i <= Len(call.version[Sections[s]]) }

EntityAt(x) == call.version[Sections[x[1]]][x[2]]

Imported(x) == ret.data[Sections[x[1]]]

IsNullish(x) == x.t \in {"null", "undefined"}

\* the entity is imported under its id
HasEntity(x) == ~IsNullish(EntityAt(x).id) /\ EntityAt(x).id.s \in DOMAIN Imported(x)

\* the imported entity has every non-null field of the exported one
Reproduced(entity, imported) ==
    \A f \in DOMAIN entity :
        ~IsNullish(entity[f]) => Prop(imported, f) = entity[f]

\* C11: importFromCSV of the text exportAsCSV writes for a catalog has every
\* entity of the catalog, with every non-null field equal to the original
C11_CSVRoundTripReproducesFields ==
    CSVReimported =>
        /\ ret.error = NoError
        /\ \A x \in EntitiesOfCall :
              /\ HasEntity(x)
              /\ Reproduced(EntityAt(x), Imported(x)[EntityAt(x).id.s])

\* the fields of the columns of a section, in column order
ColumnsOf(s) ==
    IF s = 1 THEN <<"id", "name">>
    ELSE IF s = 2 THEN <<"id", "manufacturerId", "name">>
    ELSE IF s = 3 THEN <<"id", "productLineId", "productType", "productTypeCode", "name",
                         "pricingModel", "uiRate", "flatPrice", "minimumUI", "maximumUI">>
    ELSE <<"id", "name", "pricingModel", "uiRate", "flatPrice", "exclusiveGroup",
           "mandatory", "hiddenFromCustomer", "isJobBased", "allowedProductTypes",
           "allowedProductLines", "minSize", "maxSize">>

\* the cells exportAsCSV writes for an entity of a section
CellsOf(s, entity) ==
    IF s = 1 THEN manufacturerCells(entity)
    ELSE IF s = 2 THEN productLineCells(entity)
    ELSE IF s = 3 THEN productCells(entity)
    ELSE addonCells(entity)

\* what the claim asks of one written column
ColumnReadBack(written, field, entity, imported) ==
    IF written = <<>> THEN IsNullish(Prop(imported, field))
    ELSE Prop(imported, field) = Prop(entity, field)

\* C12: every column exportAsCSV writes for an entity is read back by
\* importFromCSV as the same value in the same field, and a column written
\* empty is read back as absent
C12_EveryColumnReadBack ==
    CSVReimported =>
        /\ ret.error = NoError
        /\ \A x \in EntitiesOfCall :
              /\ HasEntity(x)
              /\ \A k \in 1..Len(ColumnsOf(x[1])) :
                    ColumnReadBack(CellsOf(x[1], EntityAt(x))[k], ColumnsOf(x[1])[k],
                                   EntityAt(x), Imported(x)[EntityAt(x).id.s])

\* a member the document lacks: absent, null or empty
Lacks(document, key) ==
    \/ document.t # "object"
    \/ key \notin DOMAIN document.v
    \/ document.v[key] \in {JNull, JString(<<>>)}

\* C13: importFromJSON fails with the invalid-format error when the parsed
\* document lacks id or manufacturers; otherwise it returns exactly the four
\* keys, a missing productLines, products or addons being an empty mapping
C13_InvalidFormatOrFourKeys ==
    Returned("importFromJSON") /\ call.content.kind = "json" =>
        LET document == call.content.value
        IN  IF Lacks(document, "id") \/ Lacks(document, "manufacturers")
            THEN ret.error = InvalidVersionFormat
            ELSE /\ ret.error = NoError
                 /\ DOMAIN ret.value = VersionKeys
                 /\ \A k \in VersionKeys :
                       ret.value[k] = IF Lacks(document, k) THEN JObject(EmptyMap)
                                      ELSE document.v[k]

====
